---- MODULE Spec2Model ----
(***************************************************************************)
(* A model of the Jaeger client's Tracer (tracer.go): StartSpan with its   *)
(* reference resolution, ID generation, sampling decision, baggage         *)
(* inheritance, start tags and start metrics; reportSpan with the span     *)
(* allocator and the reporter; NewTracer with the codec registry; Inject,  *)
(* Extract, Tags and Close.                                                *)
(*                                                                         *)
(* Specifications: Spec (one StartSpan call over every input), SpecSeq     *)
(* (calls on the contexts of earlier spans, baggage writes), SpecCalls     *)
(* (sequences of calls with start tags), SpecDraws (one call, the          *)
(* generator returning zeros), SpecLife (StartSpan, reportSpan and the     *)
(* reporter interleaved on a pooled allocator), SpecOps (the tracer from   *)
(* its construction on, every operation interleaved).                      *)
(*                                                                         *)
(* Go maps are references: a SpanContext's baggage field is an address     *)
(* into `heap`, so that copying a context copies the address and           *)
(* `make` + copy loop yields a new address.                                *)
(***************************************************************************)
EXTENDS Integers, Sequences, FiniteSets, TLC

VARIABLES
    options,    \* Tracer.options: gen128Bit, zipkinSharedRPCSpan
    metrics,    \* Tracer.metrics: the start counters
    heap,       \* baggage maps by address (1..Len(heap)); 0 is nil
    spans,      \* the Span records handed out by the allocator, in order
    selfSpans,  \* indices of spans whose context came from a self-reference
    call,       \* the most recent StartSpan call: inputs, locals, collaborators' log
    spanAllocator, \* Tracer.spanAllocator: "simple" or "pool"
    life,       \* per Span record: its lifecycle (reportSpan's position, reference
                \* counter, whether it sits in the allocator's pool)
    reporter,   \* Tracer.reporter: the Report calls it received, the spans it
                \* still processes, whether it was closed
    tracer,     \* Tracer.injectors, extractors, tags, process
    ctor,       \* NewTracer's position: the addCodec calls it has made, then returned
    collab,     \* sampler, baggage-restriction manager, debug throttler: which of
                \* them are io.Closers, which were closed
    ret         \* what the most recent Inject, Extract, Tags, Close or addCodec did

\* what StartSpan, reportSpan and the reporter leave alone
tracerVars == <<tracer, ctor, collab, ret>>

vars == <<options, metrics, heap, spans, selfSpans, call, spanAllocator, life, reporter, tracer, ctor, collab, ret>>

----------------------------------------------------------------------------
(* Bounds of the model *)

\* the random-number generator returns values of 0..MaxID
MaxID == 2
\* longest reference list a caller passes in Spec
MaxRefs == 2
\* most StartSpan calls of one behaviour of SpecSeq, SpecLife and SpecCalls
MaxCalls == 2
\* most zeros the generator returns in a row to one randomID call (SpecDraws)
MaxZeroDraws == 1

----------------------------------------------------------------------------
(* SpanContext *)

flagSampled == 1
flagDebug == 2

HasFlag(flags, bit) == (flags \div bit) % 2 = 1
SetFlag(flags, bit) == IF HasFlag(flags, bit) THEN flags ELSE flags + bit
ClearFlag(flags, bit) == IF HasFlag(flags, bit) THEN flags - bit ELSE flags

NilBag == 0

emptyContext ==
    [traceID |-> [High |-> 0, Low |-> 0], spanID |-> 0, parentID |-> 0,
     flags |-> 0, baggage |-> NilBag, debugID |-> ""]

TraceIDIsValid(traceID) == traceID.High # 0 \/ traceID.Low # 0
IsValid(ctx) == TraceIDIsValid(ctx.traceID) /\ ctx.spanID # 0
IsSampled(ctx) == HasFlag(ctx.flags, flagSampled)
IsDebug(ctx) == HasFlag(ctx.flags, flagDebug)
isDebugIDContainerOnly(ctx) == ~TraceIDIsValid(ctx.traceID) /\ ctx.debugID # ""

\* len(ctx.baggage): a nil map has length 0
BaggageLen(m, bag) == IF bag = NilBag THEN 0 ELSE Cardinality(DOMAIN m[bag])

----------------------------------------------------------------------------
(* Reference types and tag keys *)

ChildOfRef == "ChildOf"
FollowsFromRef == "FollowsFrom"
selfRefType == "Self"

SpanKindKey == "span.kind"
SamplingPriorityKey == "sampling.priority"
JaegerDebugHeader == "jaeger-debug-id"

\* tag values: the span kind as the ext enum or as a plain string
SpanKindRPCServerEnum == "enum:server"
SpanKindRPCServerString == "string:server"
SpanKindRPCClientEnum == "enum:client"

\* SelfRef(ctx), opentracing.ChildOf(ctx), opentracing.FollowsFrom(ctx)
SelfRef(ctx) == [Type |-> selfRefType, isSpanContext |-> TRUE, ReferencedContext |-> ctx]
ChildOf(ctx) == [Type |-> ChildOfRef, isSpanContext |-> TRUE, ReferencedContext |-> ctx]
FollowsFrom(ctx) == [Type |-> FollowsFromRef, isSpanContext |-> TRUE, ReferencedContext |-> ctx]
\* a reference whose context is some other tracer's SpanContext type
ForeignRef(type) == [Type |-> type, isSpanContext |-> FALSE, ReferencedContext |-> emptyContext]

----------------------------------------------------------------------------
(* startSpanWithOptions: reference resolution (lines 221-261) *)

isValidReference(m, ctx) ==
    IsValid(ctx) \/ isDebugIDContainerOnly(ctx) \/ BaggageLen(m, ctx.baggage) # 0

\* takeSelfRef without line 246: the flag is set, the context is not taken
takeSelfRefFlagOnly(acc, ctxRef) == [acc EXCEPT !.isSelfRef = TRUE]

\* lines 244-248: a self-reference becomes the new span's context
takeSelfRef(acc, ctxRef) == [acc EXCEPT !.isSelfRef = TRUE, !.ctx = ctxRef]

\* selectParent with every ChildOf reference overwriting the parent (last one wins)
selectParentLastChildOf(acc, ref) ==
    IF ~acc.hasParent \/ ref.Type = ChildOfRef
    THEN [acc EXCEPT !.parent = ref.ReferencedContext,
                     !.hasParent = (ref.Type = ChildOfRef)]
    ELSE acc

\* lines 252-255: the parent is overwritten until a ChildOf reference is seen
selectParent(acc, ref) ==
    IF ~acc.hasParent
    THEN [acc EXCEPT !.parent = ref.ReferencedContext,
                     !.hasParent = (ref.Type = ChildOfRef)]
    ELSE acc

\* one iteration of the loop over options.References (lines 232-256)
resolveStep(m, acc, ref) ==
    IF ~ref.isSpanContext THEN acc
    ELSE IF ~isValidReference(m, ref.ReferencedContext) THEN acc
    ELSE IF ref.Type = selfRefType THEN takeSelfRef(acc, ref.ReferencedContext)
    ELSE selectParent(
            [acc EXCEPT !.references =
                Append(@, [Type |-> ref.Type, Context |-> ref.ReferencedContext])],
            ref)

RECURSIVE resolveLoop(_, _, _)
resolveLoop(m, acc, refs) ==
    IF refs = <<>> THEN acc
    ELSE resolveLoop(m, resolveStep(m, acc, Head(refs)), Tail(refs))

\* lines 227-261: the loop and the FollowsFrom fallback after it
resolveReferences(m, refs) ==
    LET acc == resolveLoop(m,
                   [references |-> <<>>, parent |-> emptyContext, hasParent |-> FALSE,
                    ctx |-> emptyContext, isSelfRef |-> FALSE],
                   refs)
    IN IF ~acc.hasParent /\ isValidReference(m, acc.parent)
       THEN [acc EXCEPT !.hasParent = TRUE]
       ELSE acc

\* lines 263-266
isRPCServer(tags) ==
    /\ SpanKindKey \in DOMAIN tags
    /\ tags[SpanKindKey] \in {SpanKindRPCServerEnum, SpanKindRPCServerString}

----------------------------------------------------------------------------
(* startSpanWithOptions: the new context (lines 268-308) *)

\* newTraceContext without line 277: the span ID is not set
newTraceContextNoSpanID(ctx, low, high, gen128Bit) ==
    [ctx EXCEPT !.traceID = [High |-> IF gen128Bit THEN high ELSE ctx.traceID.High,
                             Low |-> low],
                !.parentID = 0,
                !.flags = 0]

\* lines 272-279: a new trace's IDs, flags cleared
newTraceContext(ctx, low, high, gen128Bit) ==
    [ctx EXCEPT !.traceID = [High |-> IF gen128Bit THEN high ELSE ctx.traceID.High,
                             Low |-> low],
                !.spanID = low,
                !.parentID = 0,
                !.flags = 0]

\* line 280: the debug throttler is asked only for a debug-id-only parent (&&)
consultsThrottler(hasParent, parent) == hasParent /\ isDebugIDContainerOnly(parent)

\* lines 280-283: the sampler is asked unless debug sampling was forced
consultsSampler(hasParent, parent, allowed) ==
    ~(consultsThrottler(hasParent, parent) /\ allowed)

\* samplingDecision forcing only the sampled flag for a debug-id parent
samplingDecisionNoDebugFlag(ctx, hasParent, parent, allowed, answer) ==
    IF ~consultsSampler(hasParent, parent, allowed)
    THEN [flags |-> SetFlag(ctx.flags, flagSampled),
          samplerTags |-> <<[key |-> JaegerDebugHeader, value |-> parent.debugID]>>]
    ELSE IF answer.sampled
    THEN [flags |-> SetFlag(ctx.flags, flagSampled), samplerTags |-> answer.tags]
    ELSE [flags |-> ctx.flags, samplerTags |-> <<>>]

\* lines 280-286: debug-forced sampling, else the sampler's answer
\* answer = [sampled, tags] is sampler.IsSampled's result (read only when asked)
samplingDecision(ctx, hasParent, parent, allowed, answer) ==
    IF ~consultsSampler(hasParent, parent, allowed)
    THEN [flags |-> SetFlag(SetFlag(ctx.flags, flagSampled), flagDebug),
          samplerTags |-> <<[key |-> JaegerDebugHeader, value |-> parent.debugID]>>]
    ELSE IF answer.sampled
    THEN [flags |-> SetFlag(ctx.flags, flagSampled), samplerTags |-> answer.tags]
    ELSE [flags |-> ctx.flags, samplerTags |-> <<>>]

\* sharesRPCSpan ignoring the tracer's zipkinSharedRPCSpan option
sharesRPCSpanAnyTracer(rpcServer, zipkinSharedRPCSpan) == rpcServer

\* line 289
sharesRPCSpan(rpcServer, zipkinSharedRPCSpan) == rpcServer /\ zipkinSharedRPCSpan

\* joinTraceContext taking the parent's parent as parent in both branches
joinTraceContextGrandparent(ctx, parent, shared, id) ==
    [ctx EXCEPT !.traceID = parent.traceID,
                !.spanID = IF shared THEN parent.spanID ELSE id,
                !.parentID = parent.parentID,
                !.flags = parent.flags]

\* joinTraceContext inheriting only the sampled bit of the parent's flags
joinTraceContextSampledBitOnly(ctx, parent, shared, id) ==
    [ctx EXCEPT !.traceID = parent.traceID,
                !.spanID = IF shared THEN parent.spanID ELSE id,
                !.parentID = IF shared THEN parent.parentID ELSE parent.spanID,
                !.flags = IF HasFlag(parent.flags, flagSampled) THEN flagSampled ELSE 0]

\* lines 288-297: joining the parent's trace; id is randomID()'s result
joinTraceContext(ctx, parent, shared, id) ==
    [ctx EXCEPT !.traceID = parent.traceID,
                !.spanID = IF shared THEN parent.spanID ELSE id,
                !.parentID = IF shared THEN parent.parentID ELSE parent.spanID,
                !.flags = parent.flags]

\* line 301: whether the parent's baggage is copied
copiesBaggage(m, hasParent, parent) == hasParent /\ BaggageLen(m, parent.baggage) > 0

\* lines 302-305: make(map) and the copy loop
copyBaggage(b) == [k \in DOMAIN b |-> b[k]]

\* newBaggage taking the parent's map itself instead of the map made for the copy
newBaggageAliased(m, ctx, copies, parent) ==
    IF copies THEN parent.baggage ELSE ctx.baggage

\* lines 301-302: the context's baggage is the map made for the copy, at the next
\* free address, and stays as it was when nothing is copied
newBaggage(m, ctx, copies, parent) ==
    IF copies THEN Len(m) + 1 ELSE ctx.baggage

----------------------------------------------------------------------------
(* startSpanInternal (lines 389-437) *)

\* setSamplingPriority(sp, v): a positive priority forces the sampled flag, zero
\* clears it; `applied` is its boolean result
setSamplingPriority(flags, value, applied) ==
    IF ~applied THEN flags
    ELSE IF value = "0" THEN ClearFlag(flags, flagSampled)
    ELSE SetFlag(flags, flagSampled)

\* Span.setTagNoLocking
setTagNoLocking(tags, k, v) == Append(tags, [key |-> k, value |-> v])

\* skipsTag never skipping: the sampling-priority tag is stored even when refused
skipsTagNever(k, applied) == FALSE

\* lines 410-412: the tag is skipped only when the priority was not applied
skipsTag(k, applied) == k = SamplingPriorityKey /\ ~applied

\* one iteration of the loop over the caller's tags (lines 408-414)
applyTag(sp, k, v, applied) ==
    LET flags1 == IF k = SamplingPriorityKey
                  THEN setSamplingPriority(sp.context.flags, v, applied)
                  ELSE sp.context.flags
        sp1 == [sp EXCEPT !.context.flags = flags1]
    IN IF skipsTag(k, applied) THEN sp1
       ELSE [sp1 EXCEPT !.tags = setTagNoLocking(@, k, v)]

RECURSIVE applyTags(_, _, _, _)
applyTags(sp, tags, order, applied) ==
    IF order = <<>> THEN sp
    ELSE applyTags(applyTag(sp, Head(order), tags[Head(order)], applied),
                   tags, Tail(order), applied)

\* line 404
isFirstInProcess(rpcServer, ctx) == rpcServer \/ ctx.parentID = 0

\* populateSpan without line 403: the record keeps the references it had
populateSpanKeepsReferences(sp, operationName, internalTags, tags, order, applied, rpcServer, references) ==
    LET sp1 == [sp EXCEPT !.operationName = operationName,
                          !.duration = 0,
                          !.firstInProcess = isFirstInProcess(rpcServer, sp.context)]
    IN IF Cardinality(DOMAIN tags) > 0 \/ Len(internalTags) > 0
       THEN applyTags([sp1 EXCEPT !.tags = internalTags], tags, order, applied)
       ELSE sp1

\* lines 399-415: the fields of the record, then the tags in map-iteration order
populateSpan(sp, operationName, internalTags, tags, order, applied, rpcServer, references) ==
    LET sp1 == [sp EXCEPT !.operationName = operationName,
                          !.duration = 0,
                          !.references = references,
                          !.firstInProcess = isFirstInProcess(rpcServer, sp.context)]
    IN IF Cardinality(DOMAIN tags) > 0 \/ Len(internalTags) > 0
       THEN applyTags([sp1 EXCEPT !.tags = internalTags], tags, order, applied)
       ELSE sp1

Inc(m, counter) == [m EXCEPT ![counter] = @ + 1]

\* emitStartMetrics counting the trace on the not-sampled side whatever the flag
emitStartMetricsTraceNotSampled(m, sp, newTrace) ==
    LET m1 == Inc(m, IF IsSampled(sp.context) THEN "SpansStartedSampled"
                     ELSE "SpansStartedNotSampled")
    IN IF newTrace THEN Inc(m1, "TracesStartedNotSampled")
       ELSE IF sp.firstInProcess THEN Inc(m1, "TracesJoinedNotSampled")
       ELSE m1

\* lines 416-435
emitStartMetrics(m, sp, newTrace) ==
    IF IsSampled(sp.context)
    THEN LET m1 == Inc(m, "SpansStartedSampled")
         IN IF newTrace THEN Inc(m1, "TracesStartedSampled")
            ELSE IF sp.firstInProcess THEN Inc(m1, "TracesJoinedSampled")
            ELSE m1
    ELSE LET m1 == Inc(m, "SpansStartedNotSampled")
         IN IF newTrace THEN Inc(m1, "TracesStartedNotSampled")
            ELSE IF sp.firstInProcess THEN Inc(m1, "TracesJoinedNotSampled")
            ELSE m1

----------------------------------------------------------------------------
(* The allocator *)

\* a blank record: a new Span, and a pooled one after its reset
blankSpan ==
    [context |-> emptyContext, operationName |-> "", duration |-> 0,
     tags |-> <<>>, references |-> <<>>, firstInProcess |-> FALSE]

\* the lifecycle of a record handed out for the gen-th time: owned by the caller,
\* reference counter 0, reportSpan not yet called (log = what reportSpan did)
newLife(gen) ==
    [pc |-> "live", referenceCounter |-> 0, inPool |-> FALSE,
     gen |-> gen, log |-> <<>>]

\* line 386, spanAllocator.Get(): the records Get may return. The simple allocator
\* makes a new record; the pool returns one of its records or, on a miss, a new one
getSlots ==
    IF spanAllocator = "pool"
    THEN {i \in DOMAIN spans : life[i].inPool} \cup {Len(spans) + 1}
    ELSE {Len(spans) + 1}

\* Get handing out a pooled record as it was released
getSpanAsReleased(slot) == IF slot \in DOMAIN spans THEN spans[slot] ELSE blankSpan

\* the record Get returns: "reset to blank state on each allocation"
getSpan(slot) == blankSpan

\* a sequence with element i set, or appended when i is the next index
Put(seq, i, v) == IF i \in DOMAIN seq THEN [seq EXCEPT ![i] = v] ELSE Append(seq, v)

----------------------------------------------------------------------------
(* What callers pass in *)

OperationNames == {"opA", "opB"}

\* baggage maps that exist before the first call, at addresses 1..3
bagUser == ("k" :> "v") @@ ("user" :> "42")
bagOther == ("k" :> "w")
bagEmpty == <<>>
InitHeap == <<bagUser, bagOther, bagEmpty>>

\* a valid context, sampled and debug, with an empty (non-nil) baggage map
ctxA == [traceID |-> [High |-> 0, Low |-> 1], spanID |-> 2, parentID |-> 1,
         flags |-> 3, baggage |-> 3, debugID |-> ""]
\* a valid root context of another trace, not sampled, with baggage
ctxB == [traceID |-> [High |-> 0, Low |-> 2], spanID |-> 1, parentID |-> 0,
         flags |-> 0, baggage |-> 1, debugID |-> ""]
\* a debug-id-only container
ctxD == [emptyContext EXCEPT !.debugID = "dbg"]
\* an invalid context that only carries baggage
ctxG == [emptyContext EXCEPT !.baggage = 2]

RefAlphabet ==
    {ChildOf(ctxA), FollowsFrom(ctxA), SelfRef(ctxA),
     ChildOf(ctxB), FollowsFrom(ctxB), SelfRef(ctxB),
     ChildOf(ctxD), FollowsFrom(ctxD),
     ChildOf(ctxG), FollowsFrom(ctxG),
     SelfRef(emptyContext), ForeignRef(ChildOfRef)}

SeqsUpTo(S, n) == UNION {[1..k -> S] : k \in 0..n}

RefLists == SeqsUpTo(RefAlphabet, MaxRefs)

\* opentracing.Tags: a map, so each key at most once
TagMaps ==
    {kind @@ prio :
        kind \in {<<>>} \cup {(SpanKindKey :> v) :
                     v \in {SpanKindRPCServerEnum, SpanKindRPCServerString,
                            SpanKindRPCClientEnum}},
        prio \in {<<>>} \cup {(SamplingPriorityKey :> v) : v \in {"0", "1"}}}

\* the orders in which Go may iterate over a map with these keys
Orders(S) == {o \in [1..Cardinality(S) -> S] : \A i, j \in DOMAIN o : i # j => o[i] # o[j]}

\* what t.randomNumber may return
Randoms == 0..MaxID

\* the debug throttler of the model allows one operation and throttles the other
DebugAllowedOperations == {"opA"}

\* lines 467-470: t.debugThrottler.IsAllowed(operation)
isDebugAllowed(operation) == operation \in DebugAllowedOperations

\* what Sampler.IsSampled may answer
SamplerAnswers ==
    {[sampled |-> FALSE, tags |-> <<>>],
     [sampled |-> TRUE, tags |-> <<[key |-> "sampler.type", value |-> "const"]>>]}

NoAnswer == [sampled |-> FALSE, tags |-> <<>>]

----------------------------------------------------------------------------
(* NewTracer (lines 77-189): the codec registry, the tracer's tags, the process *)

\* the formats NewTracer registers, in the order of lines 98-112
BuiltinFormats ==
    <<"TextMap", "HTTPHeaders", "Binary", "SpanContextFormat", "ZipkinSpanFormat">>

\* the propagator NewTracer makes for a format, and a codec an option supplied
builtinCodec(format) == [by |-> "NewTracer", format |-> format]
optionCodec(format) == [by |-> "option", format |-> format]

\* addCodec skipping both assignments when either half is registered
addCodecPairwise(t, format, injector, extractor) ==
    IF format \in DOMAIN t.injectors \cup DOMAIN t.extractors THEN t
    ELSE [t EXCEPT !.injectors = (format :> injector) @@ @,
                   !.extractors = (format :> extractor) @@ @]

\* lines 192-199: each map is looked up and assigned on its own
addCodec(t, format, injector, extractor) ==
    [t EXCEPT !.injectors = IF format \in DOMAIN @ THEN @
                            ELSE (format :> injector) @@ @,
              !.extractors = IF format \in DOMAIN @ THEN @
                             ELSE (format :> extractor) @@ @]

\* lines 98-112: the first n addCodec calls
RECURSIVE addCodecs(_, _)
addCodecs(t, n) ==
    IF n = 0 THEN t
    ELSE addCodec(addCodecs(t, n - 1), BuiltinFormats[n],
                  builtinCodec(BuiltinFormats[n]), builtinCodec(BuiltinFormats[n]))

JaegerClientVersionTagKey == "jaeger.version"
TracerHostnameTagKey == "hostname"
TracerIPTagKey == "ip"

\* lines 374-381: whether getTag finds the key
getTag(tags, key) == \E i \in DOMAIN tags : tags[i].key = key

\* lines 144-166: the version tag, then the hostname and the IP unless an option
\* gave them or the host's lookup failed
newTracerTags(tags, hostnameOK, ipOK) ==
    LET t1 == Append(tags, [key |-> JaegerClientVersionTagKey, value |-> "version"])
        t2 == IF ~getTag(t1, TracerHostnameTagKey) /\ hostnameOK
              THEN Append(t1, [key |-> TracerHostnameTagKey, value |-> "host"])
              ELSE t1
    IN IF ~getTag(t2, TracerIPTagKey) /\ ipOK
       THEN Append(t2, [key |-> TracerIPTagKey, value |-> "10.0.0.1"])
       ELSE t2

\* lines 144-183: the tags and the process descriptor; uuid is t.randomNumber()
finishTracer(t, serviceName, uuid, hostnameOK, ipOK) ==
    LET tags == newTracerTags(t.tags, hostnameOK, ipOK)
    IN [t EXCEPT !.tags = tags,
                 !.process = [Service |-> serviceName, UUID |-> uuid, Tags |-> tags]]

\* lines 83-91: the Tracer value before the options are applied
BlankTracer ==
    [injectors |-> <<>>, extractors |-> <<>>, tags |-> <<>>,
     process |-> [Service |-> "", UUID |-> 0, Tags |-> <<>>]]

\* ctor when NewTracer has returned: every addCodec call made, the process set
Constructed == Len(BuiltinFormats) + 1

\* a tracer made without codec or tag options on a host whose lookups succeed
DefaultTracer ==
    finishTracer(addCodecs(BlankTracer, Len(BuiltinFormats)), "svc", 1, TRUE, TRUE)

\* the collaborators: which implement io.Closer (the sampler always has Close),
\* none closed
NewCollab(closers) == [closers |-> closers, closed |-> {}]

NoRet == [op |-> "none"]

----------------------------------------------------------------------------
(* The state after NewTracer *)

\* a reporter that has received nothing; kind "sync" copies the span inside
\* Report, kind "async" queues the record and reads it later
NewReporter(kind) == [kind |-> kind, reports |-> <<>>, queue |-> {}, closed |-> FALSE]

ZeroMetrics ==
    [c \in {"SpansStartedSampled", "SpansStartedNotSampled",
            "TracesStartedSampled", "TracesStartedNotSampled",
            "TracesJoinedSampled", "TracesJoinedNotSampled",
            "SpansFinished"} |-> 0]

NoCall ==
    [done |-> FALSE, operationName |-> "", refs |-> <<>>, tags |-> <<>>,
     parent |-> emptyContext, hasParent |-> FALSE,
     isSelfRef |-> FALSE, selfCtx |-> emptyContext,
     rpcServer |-> FALSE, newTrace |-> FALSE, samplerTags |-> <<>>,
     context |-> emptyContext, id |-> 0, randomIDs |-> 0, draws |-> <<>>,
     samplerCalls |-> <<>>, samplerAnswer |-> NoAnswer,
     throttlerCalls |-> <<>>, allowed |-> FALSE, applied |-> FALSE,
     metricsBefore |-> ZeroMetrics, span |-> 0]

Init ==
    /\ options \in [gen128Bit : BOOLEAN, zipkinSharedRPCSpan : BOOLEAN]
    /\ metrics = ZeroMetrics
    /\ heap = InitHeap
    /\ spans = <<>>
    /\ selfSpans = {}
    /\ call = NoCall
    /\ spanAllocator = "simple"
    /\ life = <<>>
    /\ reporter = NewReporter("sync")
    /\ tracer = DefaultTracer
    /\ ctor = Constructed
    /\ collab = NewCollab({"sampler"})
    /\ ret = NoRet

----------------------------------------------------------------------------
(* Tracer.StartSpan (lines 202-323, 389-437) *)

\* startSpanInternal and the bookkeeping of the call, given the context built by
\* startSpanWithOptions
finishStart(operationName, refs, tags, r, rpcServer, newTrace, ctx, samplerTags, copies, order, log) ==
    \E slot \in getSlots :
    \E sp \in {populateSpan([getSpan(slot) EXCEPT !.context = ctx], operationName,
                            samplerTags, tags, order, log.applied,
                            rpcServer, r.references)} :
        /\ heap' = IF copies
                   THEN Append(heap, copyBaggage(heap[r.parent.baggage]))
                   ELSE heap
        /\ spans' = Put(spans, slot, sp)
        /\ life' = Put(life, slot,
                       newLife(IF slot \in DOMAIN life THEN life[slot].gen + 1 ELSE 1))
        /\ selfSpans' = IF r.isSelfRef THEN selfSpans \cup {slot}
                        ELSE selfSpans \ {slot}
        /\ metrics' = emitStartMetrics(metrics, sp, newTrace)
        /\ call' =
             [done |-> TRUE, operationName |-> operationName, refs |-> refs,
              tags |-> tags, parent |-> r.parent,
              hasParent |-> r.hasParent, isSelfRef |-> r.isSelfRef,
              selfCtx |-> r.ctx, rpcServer |-> rpcServer, newTrace |-> newTrace,
              samplerTags |-> samplerTags, context |-> ctx,
              id |-> log.id, randomIDs |-> log.randomIDs, draws |-> log.draws,
              samplerCalls |-> log.samplerCalls, samplerAnswer |-> log.samplerAnswer,
              throttlerCalls |-> log.throttlerCalls, allowed |-> log.allowed,
              applied |-> log.applied, metricsBefore |-> metrics,
              span |-> slot]
        /\ UNCHANGED <<options, spanAllocator, reporter, tracerVars>>

\* randomID returning its first draw, zero or not
randomIDFirstDraw(draws) == Head(draws)

\* lines 454-460: draws are the values t.randomNumber returns from this call on;
\* the loop redraws while the value is 0
RECURSIVE randomID(_)
randomID(draws) ==
    IF Head(draws) # 0 THEN Head(draws) ELSE randomID(Tail(draws))

\* what the generator may return to one randomID call: up to maxZeros zeros, then
\* a value that is not 0
Draws(randoms, maxZeros) ==
    {[i \in 1..(k + 1) |-> IF i <= k THEN 0 ELSE v] :
        k \in 0..(IF 0 \in randoms THEN maxZeros ELSE 0), v \in randoms \ {0}}

\* randoms: the values the high-word generator may return; draws: the sequences
\* t.randomNumber may return to randomID
StartSpanWith(operationName, refs, tags, randoms, draws) ==
    \E r \in {resolveReferences(heap, refs)}, rpcServer \in {isRPCServer(tags)} :
    \E newTrace \in {~r.isSelfRef /\ (~r.hasParent \/ ~IsValid(r.parent))},
       shared \in {sharesRPCSpan(rpcServer, options.zipkinSharedRPCSpan)} :
    \E callsRandomID \in {~r.isSelfRef /\ (newTrace \/ ~shared)},
       asksThrottler \in {newTrace /\ consultsThrottler(r.hasParent, r.parent)} :
    \E d \in (IF callsRandomID THEN draws ELSE {<<>>}) :
    \E id \in {IF callsRandomID THEN randomID(d) ELSE 0},
       high \in (IF newTrace /\ options.gen128Bit THEN randoms ELSE {0}),
       allowed \in {asksThrottler /\ isDebugAllowed(operationName)} :
    \E asksSampler \in {newTrace /\ consultsSampler(r.hasParent, r.parent, allowed)} :
    \E answer \in (IF asksSampler THEN SamplerAnswers ELSE {NoAnswer}),
       applied \in (IF SamplingPriorityKey \in DOMAIN tags THEN BOOLEAN ELSE {FALSE}),
       order \in Orders(DOMAIN tags) :
    \E ctx1 \in {IF newTrace
                 THEN newTraceContext(r.ctx, id, high, options.gen128Bit)
                 ELSE IF ~r.isSelfRef
                 THEN joinTraceContext(r.ctx, r.parent, shared, id)
                 ELSE r.ctx} :
    \E decision \in {IF newTrace
                     THEN samplingDecision(ctx1, r.hasParent, r.parent, allowed, answer)
                     ELSE [flags |-> ctx1.flags, samplerTags |-> <<>>]},
       copies \in {~r.isSelfRef /\ copiesBaggage(heap, r.hasParent, r.parent)} :
        finishStart(operationName, refs, tags, r, rpcServer, newTrace,
            [ctx1 EXCEPT !.flags = decision.flags,
                         !.baggage = newBaggage(heap, ctx1, copies, r.parent)],
            decision.samplerTags, copies, order,
            [id |-> id, randomIDs |-> IF callsRandomID THEN 1 ELSE 0, draws |-> d,
             samplerCalls |-> IF asksSampler
                              THEN <<[traceID |-> ctx1.traceID,
                                      operationName |-> operationName]>>
                              ELSE <<>>,
             samplerAnswer |-> answer,
             throttlerCalls |-> IF asksThrottler THEN <<operationName>> ELSE <<>>,
             allowed |-> allowed, applied |-> applied])

\* one call on a tracer that has started no span yet, over every input
StartSpan ==
    /\ spans = <<>>
    /\ \E operationName \in OperationNames, refs \in RefLists, tags \in TagMaps :
          StartSpanWith(operationName, refs, tags, Randoms, Draws(Randoms, 0))

Next == StartSpan

Spec == Init /\ [][Next]_vars

----------------------------------------------------------------------------
(* Sequences of calls: spans started from the contexts of earlier spans, and
   baggage written on live spans *)

BaggageKeys == {"k"}
BaggageValues == {"x"}

SeqRefAlphabet ==
    {ChildOf(ctxB), ChildOf(ctxG), SelfRef(ctxB)}
        \cup {ChildOf(spans[i].context) : i \in DOMAIN spans}
        \cup {SelfRef(spans[i].context) : i \in DOMAIN spans}

\* in sequences of calls the generator returns 0 or one of two other values
SeqRandoms == {0, 1, MaxID}
\* where the IDs matter less, it returns 0 or one other value
LifeRandoms == {0, 1}

SeqRefLists == {<<>>} \cup {<<ref>> : ref \in SeqRefAlphabet}

StartSpanSeq ==
    /\ Len(spans) < MaxCalls
    /\ \E refs \in SeqRefLists : StartSpanWith("opA", refs, <<>>, SeqRandoms, Draws(SeqRandoms, 0))

\* a baggage write on a live span: Go's map assignment, in place; a nil map is
\* made first
SetBaggageItem ==
    \E i \in DOMAIN spans, key \in BaggageKeys, value \in BaggageValues :
        LET bag == spans[i].context.baggage
        IN /\ IF bag = NilBag
              THEN /\ heap' = Append(heap, (key :> value))
                   /\ spans' = [spans EXCEPT ![i].context.baggage = Len(heap) + 1]
              ELSE /\ heap' = [heap EXCEPT ![bag] = (key :> value) @@ @]
                   /\ UNCHANGED spans
           /\ call' = NoCall
           /\ UNCHANGED <<options, metrics, selfSpans, spanAllocator, life, reporter,
                          tracerVars>>

NextSeq == StartSpanSeq \/ SetBaggageItem

SpecSeq == Init /\ [][NextSeq]_vars

----------------------------------------------------------------------------
(* Sequences of calls with start tags and references of several kinds *)

CallRefLists == {<<>>, <<ChildOf(ctxA)>>, <<ChildOf(ctxB)>>, <<SelfRef(ctxB)>>}

CallTagMaps ==
    {<<>>, (SpanKindKey :> SpanKindRPCServerEnum),
     (SamplingPriorityKey :> "0"), (SamplingPriorityKey :> "1")}

StartSpanCalls ==
    /\ Len(spans) < MaxCalls
    /\ \E refs \in CallRefLists, tags \in CallTagMaps :
          StartSpanWith("opA", refs, tags, LifeRandoms, Draws(LifeRandoms, 0))

NextCalls == StartSpanCalls

SpecCalls == Init /\ [][NextCalls]_vars

----------------------------------------------------------------------------
(* One call with a generator that returns zeros before a value that is not 0 *)

DrawRefLists ==
    {<<>>, <<ChildOf(ctxA)>>, <<FollowsFrom(ctxB)>>, <<ChildOf(ctxD)>>, <<ChildOf(ctxG)>>,
     <<SelfRef(ctxG)>>, <<SelfRef(emptyContext)>>}

StartSpanDraws ==
    /\ spans = <<>>
    /\ \E operationName \in OperationNames, refs \in DrawRefLists, tags \in CallTagMaps :
          StartSpanWith(operationName, refs, tags, Randoms, Draws(Randoms, MaxZeroDraws))

NextDraws == StartSpanDraws

SpecDraws == Init /\ [][NextDraws]_vars

----------------------------------------------------------------------------
(* The span lifecycle: StartSpan, then Span.Finish -> reportSpan (lines
   439-450) step by step, with a pooled allocator and a reporter that may
   process spans after Report returned *)

\* forwards handing every finished span to the reporter
forwardsAlways(sp) == TRUE

\* line 444
forwards(sp) == IsSampled(sp.context)

\* a reporter that never retains the spans it queues (and so never releases)
reporterRetainsNever(kind) == FALSE

\* Reporter.Report of an asynchronous reporter: "must extend the record's
\* lifetime (retain) before returning control, and explicitly release it when done"
reporterRetains(kind) == kind = "async"

\* Span.Retain
retain(l) == [l EXCEPT !.referenceCounter = @ + 1]

\* Span.Release: the last holder's release hands the record to spanAllocator.Put,
\* which pools it (the simple allocator's Put does nothing)
release(l, allocator) ==
    [l EXCEPT !.referenceCounter = @ - 1,
              !.inPool = (l.referenceCounter - 1 < 0 /\ allocator = "pool")]

\* the StartSpan calls made so far
RECURSIVE Starts(_)
Starts(l) == IF l = <<>> THEN 0 ELSE Head(l).gen + Starts(Tail(l))

LifeRefLists == {<<>>, <<ChildOf(ctxB)>>}
LifeTagMaps == {<<>>, (SamplingPriorityKey :> "1")}

StartSpanLife ==
    /\ Starts(life) < MaxCalls
    /\ \E refs \in LifeRefLists, tags \in LifeTagMaps :
          StartSpanWith("opA", refs, tags, LifeRandoms, Draws(LifeRandoms, 0))

\* line 440, entered from Span.Finish on a span its caller owns
ReportSpanInc ==
    \E i \in DOMAIN spans :
        /\ life[i].pc = "live"
        /\ metrics' = Inc(metrics, "SpansFinished")
        /\ life' = [life EXCEPT ![i].pc = "counted",
                                ![i].log = Append(@, "SpansFinished")]
        /\ UNCHANGED <<options, heap, spans, selfSpans, call, spanAllocator, reporter,
                       tracerVars>>

\* lines 444-446: Report, inside which an asynchronous reporter queues the record
ReportSpanReport ==
    \E i \in DOMAIN spans :
        /\ life[i].pc = "counted"
        /\ IF forwards(spans[i])
           THEN /\ reporter' =
                     [reporter EXCEPT
                        !.reports = Append(@, [span |-> i, gen |-> life[i].gen]),
                        !.queue = IF reporter.kind = "async"
                                  THEN @ \cup {[span |-> i, gen |-> life[i].gen]}
                                  ELSE @]
                /\ life' = [life EXCEPT
                              ![i] = [(IF reporterRetains(reporter.kind)
                                       THEN retain(@) ELSE @)
                                      EXCEPT !.pc = "forwarded",
                                             !.log = Append(@, "Report")]]
           ELSE /\ life' = [life EXCEPT ![i].pc = "forwarded"]
                /\ UNCHANGED reporter
        /\ UNCHANGED <<options, metrics, heap, spans, selfSpans, call, spanAllocator,
                       tracerVars>>

\* reportSpan handing the record to spanAllocator.Put itself, whoever holds it
releaseByTracerPuts(l, allocator) ==
    [l EXCEPT !.referenceCounter = @ - 1, !.inPool = (allocator = "pool")]

\* line 449: sp.Release()
releaseByTracer(l, allocator) == release(l, allocator)

\* line 449
ReportSpanRelease ==
    \E i \in DOMAIN spans :
        /\ life[i].pc = "forwarded"
        /\ life' = [life EXCEPT
                      ![i] = [releaseByTracer(@, spanAllocator)
                              EXCEPT !.pc = "returned", !.log = Append(@, "Release")]]
        /\ UNCHANGED <<options, metrics, heap, spans, selfSpans, call, spanAllocator,
                       reporter, tracerVars>>

\* the asynchronous reporter is done with a queued record
ReporterDone ==
    \E e \in reporter.queue :
        /\ reporter' = [reporter EXCEPT !.queue = @ \ {e}]
        /\ life' = IF reporterRetains(reporter.kind)
                   THEN [life EXCEPT ![e.span] = release(@, spanAllocator)]
                   ELSE life
        /\ UNCHANGED <<options, metrics, heap, spans, selfSpans, call, spanAllocator,
                       tracerVars>>

InitLife ==
    /\ options = [gen128Bit |-> FALSE, zipkinSharedRPCSpan |-> FALSE]
    /\ metrics = ZeroMetrics
    /\ heap = InitHeap
    /\ spans = <<>>
    /\ selfSpans = {}
    /\ call = NoCall
    /\ spanAllocator \in {"simple", "pool"}
    /\ life = <<>>
    /\ reporter \in {NewReporter(kind) : kind \in {"sync", "async"}}
    /\ tracer = DefaultTracer
    /\ ctor = Constructed
    /\ collab = NewCollab({"sampler"})
    /\ ret = NoRet

NextLife ==
    \/ StartSpanLife
    \/ ReportSpanInc
    \/ ReportSpanReport
    \/ ReportSpanRelease
    \/ ReporterDone

SpecLife == InitLife /\ [][NextLife]_vars

----------------------------------------------------------------------------
(* The tracer from its construction on: NewTracer's addCodec calls after the
   options ran, then Inject, Extract, Tags and Close next to StartSpan,
   reportSpan and the reporter *)

ErrInvalidSpanContext == "opentracing: SpanContext type incompatible with tracer"
ErrUnsupportedFormat == "opentracing: Unknown or unsupported Inject/Extract format"
NoError == "nil"

\* Inject looking the format up before it checks the context's type
injectLookupFirst(t, isSpanContext, format, answer) ==
    IF format \notin DOMAIN t.injectors
    THEN [op |-> "Inject", isSpanContext |-> isSpanContext, format |-> format,
          err |-> ErrUnsupportedFormat, injectorCalls |-> <<>>]
    ELSE IF ~isSpanContext
    THEN [op |-> "Inject", isSpanContext |-> isSpanContext, format |-> format,
          err |-> ErrInvalidSpanContext, injectorCalls |-> <<>>]
    ELSE [op |-> "Inject", isSpanContext |-> isSpanContext, format |-> format,
          err |-> answer, injectorCalls |-> <<t.injectors[format]>>]

\* lines 326-335; answer is what injector.Inject returns
inject(t, isSpanContext, format, answer) ==
    IF ~isSpanContext
    THEN [op |-> "Inject", isSpanContext |-> isSpanContext, format |-> format,
          err |-> ErrInvalidSpanContext, injectorCalls |-> <<>>]
    ELSE IF format \in DOMAIN t.injectors
    THEN [op |-> "Inject", isSpanContext |-> isSpanContext, format |-> format,
          err |-> answer, injectorCalls |-> <<t.injectors[format]>>]
    ELSE [op |-> "Inject", isSpanContext |-> isSpanContext, format |-> format,
          err |-> ErrUnsupportedFormat, injectorCalls |-> <<>>]

\* lines 338-350; answer is what extractor.Extract returns: a context and an
\* error. isNil: the returned context is nil (ctx is then not a value)
extract(t, format, answer) ==
    IF format \in DOMAIN t.extractors
    THEN IF answer.err # NoError
         THEN [op |-> "Extract", format |-> format, isNil |-> TRUE,
               ctx |-> emptyContext, err |-> answer.err,
               extractorCalls |-> <<t.extractors[format]>>, answer |-> answer]
         ELSE [op |-> "Extract", format |-> format, isNil |-> FALSE,
               ctx |-> answer.ctx, err |-> NoError,
               extractorCalls |-> <<t.extractors[format]>>, answer |-> answer]
    ELSE [op |-> "Extract", format |-> format, isNil |-> TRUE,
          ctx |-> emptyContext, err |-> ErrUnsupportedFormat,
          extractorCalls |-> <<>>, answer |-> answer]

\* Tags handing out t.tags itself
tagsOfTracerShared(tags) == [op |-> "Tags", tags |-> tags, shared |-> TRUE]

\* lines 366-370: a new slice, the tags copied into it
tagsOfTracer(tags) == [op |-> "Tags", tags |-> tags, shared |-> FALSE]

\* lines 354-360: the collaborators Close closes
closes(closers) ==
    {"sampler"} \cup (closers \cap {"baggageRestrictionManager", "debugThrottler"})

\* formats that options register codecs for, and formats callers ask for
OptionFormats == {"TextMap", "custom"}
CallFormats == {"TextMap", "custom", "unknown"}
OptionCodecs == {[f \in S |-> optionCodec(f)] : S \in SUBSET OptionFormats}
OptionTags == {<<>>, <<[key |-> TracerHostnameTagKey, value |-> "given"]>>}

InjectorAnswers == {NoError, "carrier error"}
\* an extractor may return a context, or an error next to an empty or a partly
\* filled context
ExtractorAnswers ==
    {[ctx |-> ctxA, err |-> NoError],
     [ctx |-> emptyContext, err |-> "decode error"],
     [ctx |-> [emptyContext EXCEPT !.traceID.Low = 1], err |-> "decode error"]}

\* lines 83-95: the state when the options have run
InitOps ==
    /\ options = [gen128Bit |-> FALSE, zipkinSharedRPCSpan |-> FALSE]
    /\ metrics = ZeroMetrics
    /\ heap = InitHeap
    /\ spans = <<>>
    /\ selfSpans = {}
    /\ call = NoCall
    /\ spanAllocator = "pool"
    /\ life = <<>>
    /\ reporter = NewReporter("async")
    /\ tracer \in {[BlankTracer EXCEPT !.injectors = inj, !.extractors = ext,
                                       !.tags = tags] :
                      inj \in OptionCodecs, ext \in OptionCodecs, tags \in OptionTags}
    /\ ctor = 0
    /\ collab \in {NewCollab({"sampler"}),
                   NewCollab({"sampler", "baggageRestrictionManager", "debugThrottler"})}
    /\ ret = NoRet

lifeVars == <<options, metrics, heap, spans, selfSpans, call, spanAllocator, life, reporter>>

\* lines 98-112: NewTracer's next addCodec call
AddCodec ==
    /\ ctor < Len(BuiltinFormats)
    /\ \E format \in {BuiltinFormats[ctor + 1]} :
          /\ tracer' = addCodec(tracer, format, builtinCodec(format), builtinCodec(format))
          /\ ret' = [op |-> "addCodec", format |-> format, before |-> tracer]
    /\ ctor' = ctor + 1
    /\ UNCHANGED <<lifeVars, collab>>

\* lines 114-188: the rest of NewTracer
FinishNewTracer ==
    /\ ctor = Len(BuiltinFormats)
    /\ \E uuid \in LifeRandoms, hostnameOK \in BOOLEAN, ipOK \in BOOLEAN :
          tracer' = finishTracer(tracer, "svc", uuid, hostnameOK, ipOK)
    /\ ctor' = Constructed
    /\ ret' = NoRet
    /\ UNCHANGED <<lifeVars, collab>>

\* one call, on a tracer that has started no span yet
StartSpanOps ==
    /\ ctor = Constructed
    /\ spans = <<>>
    /\ StartSpanWith("opA", <<>>, <<>>, LifeRandoms, Draws(LifeRandoms, 0))

Inject ==
    /\ ctor = Constructed
    /\ \E isSpanContext \in BOOLEAN, format \in CallFormats, answer \in InjectorAnswers :
          ret' = inject(tracer, isSpanContext, format, answer)
    /\ UNCHANGED <<lifeVars, tracer, ctor, collab>>

Extract ==
    /\ ctor = Constructed
    /\ \E format \in CallFormats, answer \in ExtractorAnswers :
          ret' = extract(tracer, format, answer)
    /\ UNCHANGED <<lifeVars, tracer, ctor, collab>>

Tags ==
    /\ ctor = Constructed
    /\ ret' = tagsOfTracer(tracer.tags)
    /\ UNCHANGED <<lifeVars, tracer, ctor, collab>>

\* the caller of Tags writes into the slice it got
WriteReturnedTags ==
    /\ ret.op = "Tags"
    /\ \E i \in {1} :
          /\ ret' = [ret EXCEPT !.tags[i].value = "overwritten"]
          /\ tracer' = IF ret.shared
                       THEN [tracer EXCEPT !.tags[i].value = "overwritten",
                                           !.process.Tags[i].value = "overwritten"]
                       ELSE tracer
    /\ UNCHANGED <<lifeVars, ctor, collab>>

\* lines 353-362
Close ==
    /\ ctor = Constructed
    /\ collab' = [collab EXCEPT !.closed = @ \cup closes(collab.closers)]
    /\ ret' = [op |-> "Close", err |-> NoError]
    /\ UNCHANGED <<lifeVars, tracer, ctor>>

NextOps ==
    \/ AddCodec
    \/ FinishNewTracer
    \/ StartSpanOps
    \/ ReportSpanInc
    \/ ReportSpanReport
    \/ ReportSpanRelease
    \/ ReporterDone
    \/ Inject
    \/ Extract
    \/ Tags
    \/ WriteReturnedTags
    \/ Close

SpecOps == InitOps /\ [][NextOps]_vars

----------------------------------------------------------------------------
(* Properties of one StartSpan call *)

\* the span the most recent call returned
Returned == spans[call.span]

\* a reference the loop does not drop (lines 233-242)
Usable(ref) == ref.isSpanContext /\ isValidReference(heap, ref.ReferencedContext)

HasSelfRefType(refs) == \E i \in DOMAIN refs : refs[i].Type = selfRefType

UsableAt(refs, type) == {i \in DOMAIN refs : Usable(refs[i]) /\ refs[i].Type = type}
UsableAny(refs) == {i \in DOMAIN refs : Usable(refs[i])}

Min(S) == CHOOSE x \in S : \A y \in S : x <= y
Max(S) == CHOOSE x \in S : \A y \in S : x >= y

HasKey(tags, key) == \E i \in DOMAIN tags : tags[i].key = key

ServerTagged == isRPCServer(call.tags)

\* the call's only reference is ChildOf(C) with C valid, and the span is not a
\* shared RPC-server span
OnlyValidChildOf ==
    /\ call.done
    /\ Len(call.refs) = 1
    /\ call.refs[1].Type = ChildOfRef
    /\ call.refs[1].isSpanContext
    /\ IsValid(call.refs[1].ReferencedContext)
    /\ ~(ServerTagged /\ options.zipkinSharedRPCSpan)

\* C1 as stated: with ChildOf(C) as the only reference, C valid, and not a shared
\* RPC-server span, traceID = C.traceID, parentID = C.spanID and spanID # C.spanID
\* for every value of the generator.
C1_SpanIDAlwaysDiffers ==
    OnlyValidChildOf =>
        LET C == call.refs[1].ReferencedContext
        IN /\ Returned.context.traceID = C.traceID
           /\ Returned.context.parentID = C.spanID
           /\ Returned.context.spanID # C.spanID

\* C1 amended: with ChildOf(C) as the only reference, C valid, and not a shared
\* RPC-server span, traceID = C.traceID, parentID = C.spanID and spanID is the
\* non-zero value of the one randomID call, so it differs from C.spanID exactly
\* when that value does.
C1_ChildOfValidContext ==
    OnlyValidChildOf =>
        LET C == call.refs[1].ReferencedContext
        IN /\ Returned.context.traceID = C.traceID
           /\ Returned.context.parentID = C.spanID
           /\ call.randomIDs = 1
           /\ call.id # 0
           /\ Returned.context.spanID = call.id

C1_Witness ==
    /\ OnlyValidChildOf
    /\ call.refs[1].ReferencedContext = ctxA
    /\ Returned.context.parentID = ctxA.spanID
    /\ Returned.context.spanID # ctxA.spanID

TracesStarted(m) == m["TracesStartedSampled"] + m["TracesStartedNotSampled"]
TracesJoined(m) == m["TracesJoinedSampled"] + m["TracesJoinedNotSampled"]

\* C2: a call with no references yields a non-zero trace ID low word, spanID equal
\* to it, parentID 0, the sampler asked exactly once with the new trace ID and the
\* operation name, and one traces-started (no traces-joined) increment.
C2_NoReferencesNewTrace ==
    (call.done /\ call.refs = <<>>) =>
        /\ Returned.context.traceID.Low # 0
        /\ Returned.context.spanID = Returned.context.traceID.Low
        /\ Returned.context.parentID = 0
        /\ call.newTrace
        /\ call.samplerCalls =
              <<[traceID |-> Returned.context.traceID,
                 operationName |-> call.operationName]>>
        /\ TracesStarted(metrics) = TracesStarted(call.metricsBefore) + 1
        /\ TracesJoined(metrics) = TracesJoined(call.metricsBefore)

C2_Witness ==
    /\ call.done
    /\ call.refs = <<>>
    /\ call.samplerAnswer.sampled
    /\ metrics["TracesStartedSampled"] = 1
    /\ Returned.context.spanID = MaxID

\* C3: without a self-reference, when some ChildOf reference is usable the parent
\* is the first usable ChildOf reference, whatever precedes or follows it.
C3_FirstChildOfIsParent ==
    (call.done /\ ~HasSelfRefType(call.refs)
        /\ UsableAt(call.refs, ChildOfRef) # {}) =>
        /\ call.hasParent
        /\ call.parent =
              call.refs[Min(UsableAt(call.refs, ChildOfRef))].ReferencedContext

C3_Witness ==
    /\ call.done
    /\ call.refs = <<FollowsFrom(ctxA), ChildOf(ctxB)>>
    /\ call.parent = ctxB
    /\ Returned.context.parentID = ctxB.spanID

\* C4 as stated: without a self-reference and without a usable ChildOf reference,
\* the parent is the first usable reference; FollowsFrom(A), FollowsFrom(B) joins
\* A's trace with parentID = A.spanID.
C4_FirstUsableIsParent ==
    (call.done /\ ~HasSelfRefType(call.refs)
        /\ UsableAt(call.refs, ChildOfRef) = {}
        /\ UsableAny(call.refs) # {}) =>
        LET first == call.refs[Min(UsableAny(call.refs))].ReferencedContext
        IN /\ call.hasParent
           /\ call.parent = first
           /\ (IsValid(first) =>
                 /\ Returned.context.traceID = first.traceID
                 /\ (~(ServerTagged /\ options.zipkinSharedRPCSpan) =>
                        Returned.context.parentID = first.spanID))

JoinsValidParent == call.done /\ ~call.isSelfRef /\ call.hasParent /\ IsValid(call.parent)

\* C5: joining a valid parent's trace without a self-reference, the context's flags
\* before caller tags equal the parent's flags, and neither the sampler nor the
\* debug throttler is asked.
C5_FlagsInherited ==
    JoinsValidParent =>
        /\ call.context.flags = call.parent.flags
        /\ IsSampled(call.context) = IsSampled(call.parent)
        /\ IsDebug(call.context) = IsDebug(call.parent)
        /\ call.samplerCalls = <<>>
        /\ call.throttlerCalls = <<>>

C5_Witness ==
    /\ JoinsValidParent
    /\ call.parent = ctxA
    /\ call.context.flags = 3
    /\ call.tags = <<>>

DebugTag(debugID) == [key |-> JaegerDebugHeader, value |-> debugID]

\* what C6 promises for a debug-id container d of a new trace
DebugOutcome(d) ==
    /\ isDebugAllowed(call.operationName) =>
          /\ IsSampled(call.context) /\ IsDebug(call.context)
          /\ \E i \in DOMAIN Returned.tags : Returned.tags[i] = DebugTag(d.debugID)
          /\ call.samplerCalls = <<>>
    /\ ~isDebugAllowed(call.operationName) =>
          /\ ~IsDebug(call.context)
          /\ call.samplerCalls # <<>>
          /\ IsSampled(call.context) = call.samplerAnswer.sampled

\* C6 as stated: a new trace with any usable debug-id-only reference is forced to
\* sampled+debug with the debug-id tag and no sampler call when the throttler
\* allows the operation, and follows the sampler when it does not.
C6_AnyDebugReference ==
    (call.done /\ call.newTrace) =>
        \A i \in UsableAny(call.refs) :
            isDebugIDContainerOnly(call.refs[i].ReferencedContext) =>
                DebugOutcome(call.refs[i].ReferencedContext)

\* C6 amended: a new trace whose selected parent is a debug-id-only container asks
\* the throttler; allowed, the context is sampled+debug, the span carries the
\* debug-id tag and the sampler is not asked; refused, no debug flag is set and
\* the sampled flag is the sampler's answer.
C6_DebugParent ==
    (call.done /\ call.newTrace /\ call.hasParent
        /\ isDebugIDContainerOnly(call.parent)) =>
        /\ call.throttlerCalls = <<call.operationName>>
        /\ call.allowed = isDebugAllowed(call.operationName)
        /\ DebugOutcome(call.parent)

C6_Witness ==
    /\ call.done
    /\ call.newTrace
    /\ call.parent = ctxD
    /\ call.allowed
    /\ call.context.flags = 3
    /\ Returned.tags[1] = DebugTag("dbg")

\* C8: joining a valid parent (no self-reference): an RPC-server span of a tracer
\* with the Zipkin-shared option copies the parent's span, parent and trace IDs and
\* calls randomID not at all; otherwise one ID is drawn for the span and the
\* parent's span ID becomes the parent ID.
C8_ZipkinSharedSpan ==
    JoinsValidParent =>
        IF ServerTagged /\ options.zipkinSharedRPCSpan
        THEN /\ call.context.spanID = call.parent.spanID
             /\ call.context.parentID = call.parent.parentID
             /\ call.context.traceID = call.parent.traceID
             /\ call.randomIDs = 0
        ELSE /\ call.randomIDs = 1
             /\ call.context.spanID = call.id
             /\ call.context.parentID = call.parent.spanID
             /\ call.context.traceID = call.parent.traceID

C8_Witness ==
    /\ JoinsValidParent
    /\ call.tags = (SpanKindKey :> SpanKindRPCServerString)
    /\ options.zipkinSharedRPCSpan
    /\ call.parent = ctxA
    /\ call.context.spanID = ctxA.spanID
    /\ call.context.parentID = ctxA.parentID

\* C9: with a usable self-reference in the list (the last one, were there several),
\* the context before caller tags is that reference's context verbatim, baggage
\* map included, wherever it sits; no ID is drawn and neither the sampler nor the
\* throttler is asked, and the span counts as no new trace.
C9_SelfReferenceVerbatim ==
    (call.done /\ UsableAt(call.refs, selfRefType) # {}) =>
        /\ call.isSelfRef
        /\ call.context =
              call.refs[Max(UsableAt(call.refs, selfRefType))].ReferencedContext
        /\ Returned.context = [call.context EXCEPT !.flags = Returned.context.flags]
        /\ call.randomIDs = 0
        /\ call.samplerCalls = <<>>
        /\ call.throttlerCalls = <<>>
        /\ ~call.newTrace

C9_Witness ==
    /\ call.done
    /\ call.refs = <<SelfRef(ctxB), ChildOf(ctxA)>>
    /\ call.context = ctxB
    /\ call.parent = ctxA

HasPriorityTag == call.done /\ SamplingPriorityKey \in DOMAIN call.tags

\* C10 as stated: a start tag with the sampling-priority key is never stored in
\* the span's tags, applied or not.
C10_PriorityNeverStored ==
    HasPriorityTag => ~HasKey(Returned.tags, SamplingPriorityKey)

\* C10 amended: a start tag with the sampling-priority key is stored in the span's
\* tags exactly when setSamplingPriority applied it; applied, the sampled flag
\* follows the priority whatever the sampler or parent decided; refused, the
\* flags stay as decided.
C10_PriorityStoredIffApplied ==
    HasPriorityTag =>
        /\ HasKey(Returned.tags, SamplingPriorityKey) = call.applied
        /\ call.applied =>
              IsSampled(Returned.context) = (call.tags[SamplingPriorityKey] # "0")
        /\ ~call.applied => Returned.context.flags = call.context.flags

C10_Witness ==
    /\ HasPriorityTag
    /\ call.applied
    /\ call.tags[SamplingPriorityKey] = "1"
    /\ ~IsSampled(call.context)
    /\ IsSampled(Returned.context)
    /\ HasKey(Returned.tags, SamplingPriorityKey)

----------------------------------------------------------------------------
(* Properties of sequences of calls *)

BaggageAddr(i) == spans[i].context.baggage

\* addresses of the maps the callers' own contexts hold
CallerMaps == DOMAIN InitHeap

InheritsBaggage ==
    /\ call.done
    /\ ~call.isSelfRef
    /\ call.hasParent
    /\ BaggageLen(heap, call.parent.baggage) > 0

\* C7 as stated, last sentence: no two contexts produced by StartSpan share one
\* baggage mapping.
C7_NoSharedBaggage ==
    \A i, j \in DOMAIN spans :
        (i # j /\ BaggageAddr(i) # NilBag) => BaggageAddr(i) # BaggageAddr(j)

\* C7 amended: a span started without a self-reference from a parent with baggage
\* has the parent's key/value pairs in a map of its own; such spans never share a
\* map with each other or with a caller's context, so no write on a span reaches
\* another's baggage: a caller's map changes only through a span started from a
\* self-reference to it, which shares the map of the context it was given.
C7_BaggageCopied ==
    /\ InheritsBaggage =>
          /\ BaggageAddr(call.span) # NilBag
          /\ BaggageAddr(call.span) # call.parent.baggage
          /\ heap[BaggageAddr(call.span)] = heap[call.parent.baggage]
    /\ \A i \in DOMAIN spans \ selfSpans :
          /\ BaggageAddr(i) \notin CallerMaps
          /\ \A j \in DOMAIN spans \ selfSpans :
                (i # j /\ BaggageAddr(i) # NilBag) => BaggageAddr(i) # BaggageAddr(j)
    /\ \A a \in CallerMaps :
          heap[a] # InitHeap[a] => \E j \in selfSpans : BaggageAddr(j) = a
    /\ \A j \in selfSpans :
          call.done /\ call.span = j => BaggageAddr(j) = call.selfCtx.baggage

\* a child of ctxB was started, then written: the parent's map is as it was
C7_Witness ==
    /\ Len(spans) >= 1
    /\ 1 \notin selfSpans
    /\ spans[1].context.traceID = ctxB.traceID
    /\ BaggageAddr(1) \notin CallerMaps \cup {NilBag}
    /\ heap[BaggageAddr(1)] = ("k" :> "x") @@ ("user" :> "42")
    /\ heap[ctxB.baggage] = bagUser

----------------------------------------------------------------------------
(* Properties of the span lifecycle *)

\* the Report calls the reporter received for record i in its current lifecycle
ReportsOf(i) ==
    Cardinality({k \in DOMAIN reporter.reports :
                    reporter.reports[k] = [span |-> i, gen |-> life[i].gen]})

\* the reportSpan calls that passed line 440: one per earlier lifecycle of a
\* record, and one for the current lifecycle once it left "live"
RECURSIVE FinishCalls(_)
FinishCalls(l) ==
    IF l = <<>> THEN 0
    ELSE (Head(l).gen - 1) + (IF Head(l).pc # "live" THEN 1 ELSE 0)
            + FinishCalls(Tail(l))

\* C11: each reportSpan call increments the finished counter once; it calls Report
\* once if and only if the span's context is sampled, and calls Release once in
\* every case, after Report; an unsampled span never reaches the reporter.
C11_ReportSpan ==
    /\ metrics["SpansFinished"] = FinishCalls(life)
    /\ \A i \in DOMAIN spans :
          life[i].pc = "returned" =>
             IF IsSampled(spans[i].context)
             THEN /\ life[i].log = <<"SpansFinished", "Report", "Release">>
                  /\ ReportsOf(i) = 1
             ELSE /\ life[i].log = <<"SpansFinished", "Release">>
                  /\ ReportsOf(i) = 0

\* a sampled span was reported and released, an unsampled one released only
C11_Witness ==
    \E i, j \in DOMAIN spans :
        /\ life[i].pc = "returned" /\ life[j].pc = "returned"
        /\ IsSampled(spans[i].context) /\ ReportsOf(i) = 1
        /\ ~IsSampled(spans[j].context) /\ ReportsOf(j) = 0
        /\ life[j].inPool
        /\ metrics["SpansFinished"] = 2

\* C12: a record the reporter still reads is not in the pool and was not handed
\* out again (it is in the lifecycle in which it was reported); a record is in the
\* pool only after reportSpan released it and the reporter, if it queued the
\* record, released it too.
C12_NoReuseWhileReading ==
    /\ \A e \in reporter.queue :
          /\ life[e.span].gen = e.gen
          /\ ~life[e.span].inPool
    /\ \A i \in DOMAIN life :
          life[i].inPool =>
             /\ life[i].pc = "returned"
             /\ life[i].referenceCounter = -1
             /\ \A e \in reporter.queue : e.span # i

\* the reporter still reads record 1, which reportSpan has released, and a later
\* StartSpan on the pooled allocator got another record
C12_Witness ==
    /\ spanAllocator = "pool"
    /\ [span |-> 1, gen |-> 1] \in reporter.queue
    /\ life[1].pc = "returned"
    /\ life[1].referenceCounter = 0
    /\ call.done /\ call.span = 2

----------------------------------------------------------------------------
(* Properties of the codec registry and of the tracer's operations *)

Range(f) == {f[x] : x \in DOMAIN f}

AfterAddCodec == ret.op = "addCodec"

BothRegistered(format) ==
    format \in DOMAIN tracer.injectors /\ format \in DOMAIN tracer.extractors

\* C13 as stated: an addCodec call for a key that already has a registration (an
\* injector or an extractor) changes nothing, so after construction the injector
\* and the extractor of every built-in key come from one registration, and every
\* built-in key has both.
C13_LaterAddCodecIgnored ==
    /\ (AfterAddCodec /\ ret.format \in DOMAIN ret.before.injectors
                                        \cup DOMAIN ret.before.extractors) =>
          /\ tracer.injectors = ret.before.injectors
          /\ tracer.extractors = ret.before.extractors
    /\ ctor = Constructed =>
          \A format \in Range(BuiltinFormats) :
              /\ BothRegistered(format)
              /\ tracer.injectors[format].by = tracer.extractors[format].by

\* C13 amended: first-wins holds for each half of a key on its own: addCodec never
\* replaces a registered injector or extractor, and registers its injector when
\* the key has no injector and its extractor when the key has no extractor; so
\* a key for which an option gave only one half gets the other half from
\* NewTracer, and after construction every built-in key has both.
C13_FirstWinsPerHalf ==
    /\ AfterAddCodec =>
          /\ \A f \in DOMAIN ret.before.injectors :
                tracer.injectors[f] = ret.before.injectors[f]
          /\ \A f \in DOMAIN ret.before.extractors :
                tracer.extractors[f] = ret.before.extractors[f]
          /\ DOMAIN tracer.injectors = DOMAIN ret.before.injectors \cup {ret.format}
          /\ DOMAIN tracer.extractors = DOMAIN ret.before.extractors \cup {ret.format}
          /\ ret.format \notin DOMAIN ret.before.injectors =>
                tracer.injectors[ret.format] = builtinCodec(ret.format)
          /\ ret.format \notin DOMAIN ret.before.extractors =>
                tracer.extractors[ret.format] = builtinCodec(ret.format)
    /\ ctor = Constructed =>
          \A format \in Range(BuiltinFormats) : BothRegistered(format)

\* an option gave the text-map injector only: the extractor is NewTracer's
C13_Witness ==
    /\ ctor = Constructed
    /\ tracer.injectors["TextMap"] = optionCodec("TextMap")
    /\ tracer.extractors["TextMap"] = builtinCodec("TextMap")
    /\ BothRegistered("ZipkinSpanFormat")

\* C14: Inject with a context of another type returns ErrInvalidSpanContext,
\* registered format or not, and calls no injector; Inject and Extract with a
\* format that has no injector (extractor) return ErrUnsupportedFormat; whenever
\* Extract returns an error, the extractor's included, the context is nil.
C14_InjectExtractErrors ==
    /\ ret.op = "Inject" =>
          /\ ~ret.isSpanContext =>
                /\ ret.err = ErrInvalidSpanContext
                /\ ret.injectorCalls = <<>>
          /\ (ret.isSpanContext /\ ret.format \notin DOMAIN tracer.injectors) =>
                /\ ret.err = ErrUnsupportedFormat
                /\ ret.injectorCalls = <<>>
    /\ ret.op = "Extract" =>
          /\ ret.format \notin DOMAIN tracer.extractors =>
                /\ ret.err = ErrUnsupportedFormat
                /\ ret.extractorCalls = <<>>
          /\ (ret.format \in DOMAIN tracer.extractors /\ ret.answer.err # NoError) =>
                ret.err = ret.answer.err
          /\ ret.err # NoError => ret.isNil

\* a foreign context and an unregistered format: the context's type is reported
C14_Witness ==
    /\ ret.op = "Inject"
    /\ ~ret.isSpanContext
    /\ ret.format = "unknown"
    /\ ret.format \notin DOMAIN tracer.injectors
    /\ ret.err = ErrInvalidSpanContext

\* C15 as stated: when Close has returned, the reporter is closed and its queue
\* drained (every span handed to Report has been submitted), and the sampler and
\* the manager and throttler that are closers are closed.
C15_CloseFlushesReporter ==
    ret.op = "Close" =>
        /\ reporter.closed
        /\ reporter.queue = {}
        /\ closes(collab.closers) \subseteq collab.closed

----------------------------------------------------------------------------
(* Properties of the start counters *)

\* what the most recent StartSpan call added to a counter
Added(counter) == metrics[counter] - call.metricsBefore[counter]

TraceCounters(side) ==
    IF side THEN {"TracesStartedSampled", "TracesJoinedSampled"}
    ELSE {"TracesStartedNotSampled", "TracesJoinedNotSampled"}

SpansStarted(m) == m["SpansStartedSampled"] + m["SpansStartedNotSampled"]

\* C16: each StartSpan call adds one to the spans-started counter of the side the
\* returned context's sampled flag names (caller tags applied) and nothing to the
\* other; it adds one to at most one of the four trace counters, none of the
\* other side; after any calls the two spans-started counters sum to the number
\* of calls and the four trace counters to at most that.
C16_StartCounters ==
    /\ call.done =>
          LET side == IsSampled(Returned.context)
          IN /\ Added("SpansStartedSampled") = (IF side THEN 1 ELSE 0)
             /\ Added("SpansStartedNotSampled") = (IF side THEN 0 ELSE 1)
             /\ \A c \in TraceCounters(~side) : Added(c) = 0
             /\ \A c \in TraceCounters(side) : Added(c) \in {0, 1}
             /\ \E c \in TraceCounters(side) : Added(c) = 0
    /\ SpansStarted(metrics) = Starts(life)
    /\ TracesStarted(metrics) + TracesJoined(metrics) <= Starts(life)

\* the second call's priority tag made an unsampled new trace sampled: it was
\* counted on the sampled side, the first call's joined trace on the other
C16_Witness ==
    /\ call.done
    /\ Starts(life) = 2
    /\ call.applied /\ call.tags = (SamplingPriorityKey :> "1")
    /\ ~IsSampled(call.context)
    /\ Added("SpansStartedSampled") = 1
    /\ Added("TracesStartedSampled") = 1
    /\ metrics["TracesJoinedNotSampled"] = 1
    /\ metrics["SpansStartedNotSampled"] = 1

AddedTracesStarted == Added("TracesStartedSampled") + Added("TracesStartedNotSampled")
AddedTracesJoined == Added("TracesJoinedSampled") + Added("TracesJoinedNotSampled")

\* C17 as stated: a call adds to a traces-started counter exactly when its span
\* is a root span (it begins a new trace, parentID = 0), and to a traces-joined
\* counter only for an RPC-server span that continues a parent's trace; a span
\* with parentID = 0 and no parent is never counted as joined, whatever the
\* references, self-references included.
C17_JoinedOnlyNonRoot ==
    call.done =>
        /\ AddedTracesStarted = (IF call.newTrace THEN 1 ELSE 0)
        /\ call.newTrace => Returned.context.parentID = 0
        /\ AddedTracesJoined = 1 =>
              /\ ~call.newTrace
              /\ Returned.firstInProcess
              /\ call.rpcServer /\ call.hasParent
        /\ (Returned.context.parentID = 0 /\ ~call.hasParent) => AddedTracesJoined = 0

----------------------------------------------------------------------------
(* Properties of pooled records *)

\* the caller's tags that are stored: all but a refused sampling priority
StoredKeys ==
    {k \in DOMAIN call.tags : ~(k = SamplingPriorityKey /\ ~call.applied)}

\* the caller's references the loop keeps, in the caller's order
RECURSIVE KeptReferences(_)
KeptReferences(refs) ==
    IF refs = <<>> THEN <<>>
    ELSE IF Usable(Head(refs)) /\ Head(refs).Type # selfRefType
    THEN <<[Type |-> Head(refs).Type, Context |-> Head(refs).ReferencedContext]>>
            \o KeptReferences(Tail(refs))
    ELSE KeptReferences(Tail(refs))

\* C18: on a pooled allocator, after any StartSpan and reportSpan calls, the span a
\* StartSpan call returns has the sampler's (or debug) tags followed by the stored
\* caller tags and no other tag, the call's usable non-self references in order
\* and no other, and as baggage a copy of the parent's baggage if the call has a
\* parent with baggage and none otherwise, also when the record was used before
\* and the call has no tags and is not sampled.
C18_NothingLeaks ==
    (call.done /\ spanAllocator = "pool") =>
        /\ \E order \in Orders(StoredKeys) :
              Returned.tags =
                 call.samplerTags
                    \o [i \in DOMAIN order |->
                          [key |-> order[i], value |-> call.tags[order[i]]]]
        /\ Returned.references = KeptReferences(call.refs)
        /\ Returned.operationName = call.operationName
        /\ ~call.isSelfRef =>
              IF call.hasParent /\ BaggageLen(heap, call.parent.baggage) > 0
              THEN /\ Returned.context.baggage \notin {NilBag, call.parent.baggage}
                   /\ heap[Returned.context.baggage] = heap[call.parent.baggage]
              ELSE Returned.context.baggage = NilBag

\* record 1, reported as a sampled span in its first lifecycle, was handed out
\* again to a call without tags and references that the sampler refused
C18_Witness ==
    /\ call.done /\ spanAllocator = "pool"
    /\ call.span = 1 /\ life[1].gen = 2
    /\ [span |-> 1, gen |-> 1] \in Range(reporter.reports)
    /\ call.tags = <<>> /\ call.refs = <<>>
    /\ ~IsSampled(Returned.context)
    /\ Returned.tags = <<>>
    /\ Returned.context.baggage = NilBag

----------------------------------------------------------------------------
(* Properties of the generated IDs *)

DrewZero == call.done /\ call.randomIDs = 1 /\ Head(call.draws) = 0

\* C19: randomID returns no 0, also when the generator returned zeros before a
\* value that is not 0; so without a self-reference the returned context is valid:
\* a new trace (no parent, or a debug-id-only or baggage-only parent) has a trace
\* ID low word and a span ID that are not 0, a joined trace has the valid
\* parent's trace ID and a span ID that is not 0, drawn or (Zipkin-shared) the
\* parent's.
C19_ValidContexts ==
    call.done =>
        /\ call.randomIDs = 1 => call.id # 0
        /\ ~call.isSelfRef =>
              /\ IsValid(Returned.context)
              /\ Returned.context.spanID # 0
              /\ IF call.newTrace
                 THEN Returned.context.traceID.Low # 0
                 ELSE /\ IsValid(call.parent)
                      /\ Returned.context.traceID = call.parent.traceID

\* a new trace started from a debug-id-only parent, the generator's first value 0
C19_Witness ==
    /\ DrewZero
    /\ call.newTrace
    /\ call.parent = ctxD
    /\ Returned.context.spanID = call.id
    /\ Returned.context.traceID.Low = call.id
    /\ IsValid(Returned.context)

----------------------------------------------------------------------------
(* Frame of the tracer's operations *)

\* C20: once NewTracer has returned, no step of StartSpan, Inject, Extract,
\* reportSpan, Tags (and its caller's writes to the returned slice), Close or the
\* reporter, in any interleaving, changes the injectors, the extractors, the
\* tracer's tags, the process descriptor or the options.
C20_TracerStateReadOnly ==
    [][ctor = Constructed => (tracer' = tracer /\ options' = options)]_vars

\* a span was started and finished, the tracer closed, and the caller of Tags
\* wrote into the slice it got: the tracer's tags are what NewTracer set
C20_Witness ==
    /\ ctor = Constructed
    /\ Len(spans) = 1 /\ life[1].pc = "returned"
    /\ "sampler" \in collab.closed
    /\ ret.op = "Tags"
    /\ ret.tags[1].value = "overwritten"
    /\ tracer.tags[1].value # "overwritten"
    /\ tracer.process.Tags = tracer.tags

====
